---- MODULE Spec2Model ----
(***************************************************************************)
(* NLI-monitor: crowd-level monitor of a library.                          *)
(*                                                                         *)
(* Two publishers keep one "live" Telegram message up to date:             *)
(*   - monitor_crowds (src/functions/collector/main.py), the serverless    *)
(*     variant, which also archives every reading in Cloud Storage;        *)
(*   - run_check (src/monitor.py), the local scheduler variant.            *)
(* A sync utility (src/local/sync.py, src/local/database.py) imports the   *)
(* archived readings into SQLite.                                          *)
(*                                                                         *)
(* Each handler is one action.  What the outside world answers (the clock, *)
(* the secret manager, the popularity provider, Telegram, Cloud Storage)   *)
(* is drawn with \E from the answers the code distinguishes.               *)
(***************************************************************************)
EXTENDS Integers, Sequences, FiniteSets, TLC

VARIABLES
    variant,    \* which publisher this deployment runs
    stored,     \* persisted last message id (state blob / id file); NoId = absent
    msgs,       \* the channel: msgs[id] = [live, text] for every message created
    clock,      \* wall clock, in ticks
    archive,    \* Cloud Storage readings/ objects: set of [path, content]
    last,       \* what the last publish cycle did (calls issued, response)
    locations,  \* SQLite table locations, in id order
    readings,   \* SQLite table readings, in id order
    sync_log,   \* SQLite table sync_log, in id order
    sync,       \* what the last run of the sync utility reported
    probe       \* a call of a pure helper: its arguments and what it returned

dbVars == <<locations, readings, sync_log, sync>>
vars == <<variant, stored, msgs, clock, archive, last,
          locations, readings, sync_log, sync, probe>>

-----------------------------------------------------------------------------
(* Bounds *)

MaxMsgs == 2           \* messages the channel may hold
MaxClock == 1          \* last clock tick
TicksPerMinute == 2    \* clock ticks that fall in one %H-%M minute
MaxPathMinute == 1     \* last minute an archived object is named after

-----------------------------------------------------------------------------
(* Values *)

NoId == 0              \* None: no message id
NoPop == -1            \* None: popularity absent
NoTs == -1             \* None: a reading without timestamp

LowLimit == 30
HighLimit == 60

PLACE_ID == "place"

\* (weekday, hour) pairs the wall clock is sampled at
SampleTimes == { <<0, 9>>, <<5, 12>> }
\* popularity values the provider is sampled at
SamplePops == { 45 }

Minute(t) == t \div TicksPerMinute

-----------------------------------------------------------------------------
(* Schedule evaluator and load classifier *)

OPERATING_HOURS ==
    [wd \in {0, 1, 2, 3, 6} |-> <<9, 20>>] @@ (4 :> <<9, 13>>)

\* is_library_open with the closing hour counted as open
is_library_open_inclusive(weekday, current_hour) ==
    IF weekday \in DOMAIN OPERATING_HOURS
    THEN LET open_hour == OPERATING_HOURS[weekday][1]
             close_hour == OPERATING_HOURS[weekday][2]
         IN  open_hour <= current_hour /\ current_hour <= close_hour
    ELSE FALSE

is_library_open(weekday, current_hour) ==
    IF weekday \in DOMAIN OPERATING_HOURS
    THEN LET open_hour == OPERATING_HOURS[weekday][1]
             close_hour == OPERATING_HOURS[weekday][2]
         IN  open_hour <= current_hour /\ current_hour < close_hour
    ELSE FALSE

\* OPERATING_HOURS of the local variant
OPERATING_HOURS_local ==
    [wd \in {0, 1, 2, 3} |-> <<9, 20>>] @@ (4 :> <<9, 13>>) @@ (6 :> <<9, 20>>)

\* is_library_open of the local variant
is_library_open_local(weekday, current_hour) ==
    IF weekday \in DOMAIN OPERATING_HOURS_local
    THEN LET open_hour == OPERATING_HOURS_local[weekday][1]
             close_hour == OPERATING_HOURS_local[weekday][2]
         IN  open_hour <= current_hour /\ current_hour < close_hour
    ELSE FALSE

\* classify_load with 30 counted as low
classify_load_inclusive(popularity) ==
    IF popularity = NoPop THEN <<"unknown", "white">>
    ELSE IF popularity <= LowLimit THEN <<"low", "green">>
    ELSE IF popularity < HighLimit THEN <<"medium", "yellow">>
    ELSE <<"high", "red">>

\* classify_load of the local variant
classify_load_local(popularity) ==
    IF popularity = NoPop THEN <<"unknown", "white">>
    ELSE IF popularity < LowLimit THEN <<"low", "green">>
    ELSE IF LowLimit <= popularity /\ popularity < HighLimit THEN <<"medium", "yellow">>
    ELSE <<"high", "red">>

classify_load(popularity) ==
    IF popularity = NoPop THEN <<"unknown", "white">>
    ELSE IF popularity < LowLimit THEN <<"low", "green">>
    ELSE IF LowLimit <= popularity /\ popularity < HighLimit THEN <<"medium", "yellow">>
    ELSE <<"high", "red">>

-----------------------------------------------------------------------------
(* Crowd data fetcher *)

\* what populartimes.get_populartimes_by_PlaceID does: raise, answer without
\* a current_popularity, or answer with one
FetchOutcomes ==
    {[kind |-> "raise", value |-> NoPop], [kind |-> "missing", value |-> NoPop]}
        \cup {[kind |-> "value", value |-> v] : v \in SamplePops}

\* get_crowd_data answering 0 where the provider gave nothing
get_crowd_data_zero(outcome) ==
    IF outcome.kind = "value" THEN outcome.value ELSE 0

get_crowd_data(outcome) ==
    IF outcome.kind = "raise" THEN NoPop
    ELSE IF outcome.kind = "missing" THEN NoPop
    ELSE outcome.value

-----------------------------------------------------------------------------
(* Message texts *)

no_text == [kind |-> "none", level |-> "none", emoji |-> "none",
            popularity |-> NoPop, hhmm |-> NoPop]

closed_message == [kind |-> "closed", level |-> "none", emoji |-> "none",
                   popularity |-> NoPop, hhmm |-> NoPop]

BuildMessage(popularity, now) ==
    LET load_level == classify_load(popularity)[1]
        emoji == classify_load(popularity)[2]
    IN  IF popularity # NoPop
        THEN [kind |-> "load", level |-> load_level, emoji |-> emoji,
              popularity |-> popularity, hhmm |-> Minute(now)]
        ELSE [kind |-> "unavailable", level |-> "none", emoji |-> emoji,
              popularity |-> NoPop, hhmm |-> Minute(now)]

-----------------------------------------------------------------------------
(* Telegram *)

\* Answers to editMessageText on message id with text:
\*   ok            200, the message now shows text
\*   not_modified  400 'message is not modified'
\*   gone          400, the message does not exist any more
\*   failed        requests.post raised (connection error, timeout), or
\*                 another 4xx/5xx status
EditResponses(channel, id, text) ==
    {"failed"} \cup
    (IF id \in DOMAIN channel /\ channel[id].live
     THEN IF channel[id].text = text THEN {"not_modified"} ELSE {"ok"}
     ELSE {"gone"})

\* Answers to sendMessage:
\*   ok          200 {"ok": true, "result": {"message_id": ...}}
\*   not_ok      200 with "ok" false or missing
\*   failed      requests.post raised, or a 4xx/5xx status
\*   malformed   200 whose body has "ok" true and no result.message_id
SendResponses == {"ok", "not_ok", "failed", "malformed"}

\* the channel after the provider has served an edit
EditEffect(channel, id, text, resp) ==
    IF resp = "ok" THEN [channel EXCEPT ![id].text = text] ELSE channel

\* the channel after the provider has served a sendMessage
SendEffect(channel, text, resp) ==
    IF resp = "ok" THEN Append(channel, [live |-> TRUE, text |-> text]) ELSE channel

\* edit_telegram_message without the 'message is not modified' case
edit_telegram_message_strict(resp) ==
    IF resp = "ok" THEN TRUE ELSE FALSE

\* edit_telegram_message: True when the edit went through or was a no-op
edit_telegram_message(resp) ==
    IF resp = "not_modified" THEN TRUE
    ELSE IF resp = "ok" THEN TRUE
    ELSE FALSE

\* send_telegram_message without the look at "ok" of the body
send_telegram_message_ignores_ok(resp, fresh) ==
    IF resp = "ok" \/ resp = "not_ok" THEN [message_id |-> fresh, raised |-> FALSE]
    ELSE IF resp = "malformed" THEN [message_id |-> NoId, raised |-> TRUE]
    ELSE [message_id |-> NoId, raised |-> FALSE]

\* send_telegram_message of the serverless variant: the new id, None on a
\* failure it catches; raised when the body cannot be read as expected
\* (only requests.exceptions.RequestException is caught)
send_telegram_message(resp, fresh) ==
    IF resp = "ok" THEN [message_id |-> fresh, raised |-> FALSE]
    ELSE IF resp = "malformed" THEN [message_id |-> NoId, raised |-> TRUE]
    ELSE [message_id |-> NoId, raised |-> FALSE]

\* send_telegram_message of the local variant saves the id itself; the id it
\* leaves stored is reported as message_id (None when nothing was saved)
send_telegram_message_local(resp, fresh) ==
    IF resp = "ok" THEN [message_id |-> fresh, raised |-> FALSE]
    ELSE IF resp = "malformed" THEN [message_id |-> NoId, raised |-> TRUE]
    ELSE [message_id |-> NoId, raised |-> FALSE]

-----------------------------------------------------------------------------
(* State store *)

\* serverless: a failed read of the state blob is logged and yields None
get_last_message_id(persisted, read_ok) ==
    IF read_ok THEN persisted ELSE NoId

\* serverless: a failed write of the state blob is logged and swallowed
save_last_message_id(persisted, message_id, write_ok) ==
    IF write_ok THEN message_id ELSE persisted

\* local: the id file; a missing file yields None
get_last_message_id_local(persisted) == persisted

save_last_message_id_local(persisted, message_id) == message_id

\* the archive path of a reading saved at tick t: readings/%Y/%m/%d/%H-%M.json
ReadingPath(t) == [minute |-> Minute(t), json |-> TRUE]

\* save_reading: upload under the path of the time of the upload; a failure
\* is logged and swallowed
save_reading(objects, reading, at, upload_ok) ==
    IF upload_ok
    THEN {o \in objects : o.path # ReadingPath(at)}
             \cup {[path |-> ReadingPath(at), content |-> reading]}
    ELSE objects

-----------------------------------------------------------------------------
(* Publish step *)

EditCall(id, text) == [op |-> "edit", id |-> id, text |-> text]
CreateCall(text) == [op |-> "create", id |-> NoId, text |-> text]

\* monitor_crowds, both branches: edit the stored message, create a new one
\* when there is none or the edit failed
publish(last_message_id, text, er, sr, fresh) ==
    IF last_message_id # NoId
    THEN IF ~edit_telegram_message(er)
         THEN LET s == send_telegram_message(sr, fresh)
              IN  [calls |-> <<EditCall(last_message_id, text), CreateCall(text)>>,
                   edit |-> er, send |-> sr,
                   new_id |-> s.message_id, raised |-> s.raised]
         ELSE [calls |-> <<EditCall(last_message_id, text)>>,
               edit |-> er, send |-> "none",
               new_id |-> NoId, raised |-> FALSE]
    ELSE LET s == send_telegram_message(sr, fresh)
         IN  [calls |-> <<CreateCall(text)>>,
              edit |-> "none", send |-> sr,
              new_id |-> s.message_id, raised |-> s.raised]

\* run_check, open branch
publish_local(last_message_id, text, er, sr, fresh) ==
    IF last_message_id # NoId
    THEN IF ~edit_telegram_message(er)
         THEN LET s == send_telegram_message_local(sr, fresh)
              IN  [calls |-> <<EditCall(last_message_id, text), CreateCall(text)>>,
                   edit |-> er, send |-> sr,
                   new_id |-> s.message_id, raised |-> s.raised]
         ELSE [calls |-> <<EditCall(last_message_id, text)>>,
               edit |-> er, send |-> "none",
               new_id |-> NoId, raised |-> FALSE]
    ELSE LET s == send_telegram_message_local(sr, fresh)
         IN  [calls |-> <<CreateCall(text)>>,
              edit |-> "none", send |-> sr,
              new_id |-> s.message_id, raised |-> s.raised]

\* run_check, closed branch: the result of the edit is not looked at
publish_closed_local(last_message_id, text, er, sr, fresh) ==
    IF last_message_id # NoId
    THEN [calls |-> <<EditCall(last_message_id, text)>>,
          edit |-> er, send |-> "none",
          new_id |-> NoId, raised |-> FALSE]
    ELSE LET s == send_telegram_message_local(sr, fresh)
         IN  [calls |-> <<CreateCall(text)>>,
              edit |-> "none", send |-> sr,
              new_id |-> s.message_id, raised |-> s.raised]

\* the channel after the provider has served the calls of a publish step
Served(channel, p) ==
    LET edited == IF p.edit # "none"
                  THEN EditEffect(channel, p.calls[1].id, p.calls[1].text, p.edit)
                  ELSE channel
    IN  IF p.send # "none"
        THEN SendEffect(edited, p.calls[Len(p.calls)].text, p.send)
        ELSE edited

-----------------------------------------------------------------------------
(* Publish cycles *)

\* what a cycle did: the branch taken, the answers it got, the calls it made
NoCycle == [handler |-> "none", branch |-> "none", status |-> NoId,
            raised |-> FALSE, fetch |-> "none", popularity |-> NoPop,
            level |-> "none", stored0 |-> NoId, len0 |-> NoId,
            read_id |-> NoId, read_failed |-> FALSE, write_failed |-> FALSE,
            calls |-> <<>>, edit |-> "none", send |-> "none",
            new_id |-> NoId, upload |-> "none"]

Live(channel) == {i \in DOMAIN channel : channel[i].live}

\* the answers sendMessage can give where it is called; "none" where the
\* publish step ends on the edit
SendChoices(will_send) == IF will_send THEN SendResponses ELSE {"none"}

\* the outcomes of a read or write of the state blob, where one is made
IoChoices(attempted) == IF attempted THEN BOOLEAN ELSE {TRUE}

\* the cycle record of a publish step p
Published(handler, branch, id, p) ==
    [NoCycle EXCEPT !.handler = handler, !.branch = branch,
                    !.stored0 = stored, !.len0 = Len(msgs),
                    !.read_id = id, !.read_failed = (id # stored),
                    !.calls = p.calls, !.edit = p.edit,
                    !.send = p.send, !.new_id = p.new_id, !.raised = p.raised]

\* monitor_crowds from the read of the stored id on, publishing text
MonitorCrowdsPublish(branch, text, cycle) ==
    \E read_ok \in IoChoices(stored # NoId) :
      LET last_message_id == get_last_message_id(stored, read_ok)
      IN  \E er \in EditResponses(msgs, last_message_id, text) :
          \E sr \in SendChoices(last_message_id = NoId \/ ~edit_telegram_message(er)) :
          \E write_ok \in IoChoices(sr = "ok") :
          \E p \in {publish(last_message_id, text, er, sr, Len(msgs) + 1)} :
            LET saved == IF p.new_id # NoId
                         THEN save_last_message_id(stored, p.new_id, write_ok)
                         ELSE stored
                done == Published("monitor_crowds", branch, last_message_id, p)
            IN  /\ stored' = saved
                /\ msgs' = Served(msgs, p)
                /\ last' = [done EXCEPT
                              !.status = IF p.raised THEN 500 ELSE 200,
                              !.write_failed = (p.new_id # NoId /\ ~write_ok),
                              !.fetch = cycle.fetch,
                              !.popularity = cycle.popularity,
                              !.level = cycle.level,
                              !.upload = cycle.upload]

\* monitor_crowds: the library is closed
MonitorCrowdsClosed ==
    /\ MonitorCrowdsPublish("closed", closed_message, NoCycle)
    /\ UNCHANGED <<variant, clock, archive, dbVars, probe>>

\* monitor_crowds without the early return on a secret that cannot be read
MonitorCrowdsAbortPublishes ==
    /\ MonitorCrowdsPublish("abort", closed_message, NoCycle)
    /\ UNCHANGED <<variant, clock, archive, dbVars, probe>>

\* monitor_crowds: the secrets cannot be read
MonitorCrowdsAbort ==
    /\ last' = [NoCycle EXCEPT !.handler = "monitor_crowds", !.branch = "abort",
                               !.status = 500, !.stored0 = stored,
                               !.len0 = Len(msgs)]
    /\ UNCHANGED <<variant, stored, msgs, clock, archive, dbVars, probe>>

\* monitor_crowds: the library is open at weekday wd, hour hr
MonitorCrowdsOpen(wd, hr) ==
    \E outcome \in FetchOutcomes, upload_ok \in BOOLEAN,
       at \in {t \in {clock, clock + 1} : t <= MaxClock} :
      LET now == clock
          popularity == get_crowd_data(outcome)
          load_level == classify_load(popularity)[1]
          reading == [parsable |-> TRUE, timestamp |-> now, place_id |-> PLACE_ID,
                      popularity |-> popularity, day_of_week |-> wd,
                      hour |-> hr, is_open |-> TRUE]
          message == BuildMessage(popularity, now)
      IN  /\ archive' = save_reading(archive, reading, at, upload_ok)
          /\ clock' = at
          /\ MonitorCrowdsPublish("open", message,
                 [NoCycle EXCEPT !.fetch = outcome.kind,
                                 !.popularity = popularity,
                                 !.level = load_level,
                                 !.upload = IF upload_ok THEN "ok" ELSE "failed"])
          /\ UNCHANGED <<variant, dbVars, probe>>

\* monitor_crowds, the HTTP entry point of the serverless variant
MonitorCrowds ==
    /\ variant = "serverless"
    /\ Len(msgs) < MaxMsgs
    /\ \E secrets_ok \in BOOLEAN, tm \in SampleTimes :
         IF ~secrets_ok THEN MonitorCrowdsAbort
         ELSE IF ~is_library_open(tm[1], tm[2]) THEN MonitorCrowdsClosed
         ELSE MonitorCrowdsOpen(tm[1], tm[2])

\* run_check: the library is closed
RunCheckClosed ==
    LET last_message_id == get_last_message_id_local(stored)
    IN  \E er \in EditResponses(msgs, last_message_id, closed_message) :
        \E sr \in SendChoices(last_message_id = NoId) :
        \E p \in {publish_closed_local(last_message_id, closed_message, er, sr,
                                        Len(msgs) + 1)} :
              /\ stored' = IF p.new_id # NoId
                           THEN save_last_message_id_local(stored, p.new_id)
                           ELSE stored
              /\ msgs' = Served(msgs, p)
              /\ last' = Published("run_check", "closed", last_message_id, p)
              /\ UNCHANGED <<variant, clock, archive, dbVars, probe>>

\* run_check: the library is open
RunCheckOpen ==
    \E outcome \in FetchOutcomes :
      LET popularity == get_crowd_data(outcome)
          load_level == classify_load_local(popularity)[1]
          message == BuildMessage(popularity, clock)
          last_message_id == get_last_message_id_local(stored)
      IN  \E er \in EditResponses(msgs, last_message_id, message) :
          \E sr \in SendChoices(last_message_id = NoId \/ ~edit_telegram_message(er)) :
          \E p \in {publish_local(last_message_id, message, er, sr, Len(msgs) + 1)} :
                /\ stored' = IF p.new_id # NoId
                             THEN save_last_message_id_local(stored, p.new_id)
                             ELSE stored
                /\ msgs' = Served(msgs, p)
                /\ last' = [Published("run_check", "open", last_message_id, p)
                              EXCEPT !.fetch = outcome.kind,
                                     !.popularity = popularity,
                                     !.level = load_level]
                /\ UNCHANGED <<variant, clock, archive, dbVars, probe>>

\* run_check, the scheduled job of the local variant
RunCheck ==
    /\ variant = "local"
    /\ Len(msgs) < MaxMsgs
    /\ \E tm \in SampleTimes :
         IF ~is_library_open_local(tm[1], tm[2]) THEN RunCheckClosed ELSE RunCheckOpen

\* somebody deletes a message of the channel by hand
DeleteMessage ==
    /\ \E i \in Live(msgs) :
         msgs' = [msgs EXCEPT ![i] = [live |-> FALSE, text |-> no_text]]
    /\ UNCHANGED <<variant, stored, clock, archive, last, dbVars, probe>>

\* time passes between two cycles
Tick ==
    /\ clock < MaxClock
    /\ clock' = clock + 1
    /\ UNCHANGED <<variant, stored, msgs, archive, last, dbVars, probe>>

-----------------------------------------------------------------------------
(* SQLite database (src/local/database.py) *)

\* place_id -> name of the places the sync utility knows
LOCATIONS == (PLACE_ID :> "National Library of Israel")

LocationName(place_id) ==
    IF place_id \in DOMAIN LOCATIONS THEN LOCATIONS[place_id] ELSE "Unknown"

\* get_or_create_location without the SELECT of the existing row
get_or_create_location_insert(table, place_id, name) ==
    [locations |-> Append(table, [place_id |-> place_id, name |-> name]),
     location_id |-> Len(table) + 1]

\* get_or_create_location: the id of the row of place_id, inserted when missing
get_or_create_location(table, place_id, name) ==
    IF \E i \in DOMAIN table : table[i].place_id = place_id
    THEN [locations |-> table,
          location_id |-> CHOOSE i \in DOMAIN table : table[i].place_id = place_id]
    ELSE [locations |-> Append(table, [place_id |-> place_id, name |-> name]),
          location_id |-> Len(table) + 1]

\* insert_reading on a table without UNIQUE(location_id, timestamp)
insert_reading_no_unique(table, row) ==
    IF row.timestamp = NoTs
    THEN [readings |-> table, inserted |-> FALSE]
    ELSE [readings |-> Append(table, row), inserted |-> TRUE]

\* insert_reading: False on sqlite3.IntegrityError, that is when timestamp is
\* NULL (NOT NULL) or (location_id, timestamp) is already there (UNIQUE)
insert_reading(table, row) ==
    IF \/ row.timestamp = NoTs
       \/ \E i \in DOMAIN table : /\ table[i].location_id = row.location_id
                                  /\ table[i].timestamp = row.timestamp
    THEN [readings |-> table, inserted |-> FALSE]
    ELSE [readings |-> Append(table, row), inserted |-> TRUE]

\* is_blob_synced looking a path up that is never in the ledger
is_blob_synced_never(log, blob_path) == FALSE

\* is_blob_synced
is_blob_synced(log, blob_path) ==
    \E i \in DOMAIN log : log[i] = blob_path

\* mark_blob_synced: blob_path is UNIQUE, a second insert is ignored
mark_blob_synced(log, blob_path) ==
    IF \E i \in DOMAIN log : log[i] = blob_path THEN log ELSE Append(log, blob_path)

get_readings_count(table) == Len(table)

-----------------------------------------------------------------------------
(* Sync utility (src/local/sync.py) *)

\* the objects of the bucket under readings/ whose name ends in .json, in
\* the order list_blobs gives them (by name)
RECURSIVE ListJson(_)
ListJson(objects) ==
    LET json == {o \in objects : o.path.json}
    IN  IF json = {} THEN <<>>
        ELSE LET first == CHOOSE o \in json :
                              \A q \in json : o.path.minute <= q.path.minute
             IN  <<first>> \o ListJson(json \ {first})

NoSync == [run |-> "none", listed |-> NoId, new_count |-> NoId,
           skip_count |-> NoId, error_count |-> NoId, outcomes |-> <<>>]

Outcome(blob, result, mark) ==
    [path |-> blob.path, result |-> result, mark |-> mark]

\* 'if not place_id' letting every object through
no_place_id_never(data) == FALSE

\* 'if not place_id': the object names no place
no_place_id(data) == data.place_id = ""

\* the body of the loop of sync_readings for one blob; db carries the tables
\* and the counters, io what the download and the ledger write of this blob do
SyncBlob(db, blob, io) ==
    IF is_blob_synced(db.sync_log, blob.path)
    THEN [db EXCEPT !.skip_count = @ + 1,
                    !.outcomes = Append(@, Outcome(blob, "synced", "none"))]
    ELSE IF ~io.download_ok
    THEN [db EXCEPT !.error_count = @ + 1,
                    !.outcomes = Append(@, Outcome(blob, "download_failed", "none"))]
    ELSE IF ~blob.content.parsable
    THEN [db EXCEPT !.error_count = @ + 1,
                    !.outcomes = Append(@, Outcome(blob, "unparsable", "none"))]
    ELSE IF no_place_id(blob.content)
    THEN [db EXCEPT !.error_count = @ + 1,
                    !.outcomes = Append(@, Outcome(blob, "no_place_id", "none"))]
    ELSE LET data == blob.content
             loc == get_or_create_location(db.locations, data.place_id,
                                           LocationName(data.place_id))
             ins == insert_reading(db.readings,
                        [location_id |-> loc.location_id,
                         popularity |-> data.popularity,
                         timestamp |-> data.timestamp,
                         day_of_week |-> data.day_of_week,
                         hour |-> data.hour,
                         is_open |-> IF data.is_open THEN 1 ELSE 0,
                         synced_from |-> blob.path])
             result == IF ins.inserted THEN "new" ELSE "duplicate"
             counted == [db EXCEPT !.locations = loc.locations,
                                   !.readings = ins.readings,
                                   !.new_count = IF ins.inserted THEN @ + 1 ELSE @,
                                   !.skip_count = IF ins.inserted THEN @ ELSE @ + 1]
         IN  IF io.mark_ok
             THEN [counted EXCEPT
                     !.sync_log = mark_blob_synced(@, blob.path),
                     !.outcomes = Append(@, Outcome(blob, result, "ok"))]
             ELSE [counted EXCEPT
                     !.error_count = @ + 1,
                     !.outcomes = Append(@, Outcome(blob, result, "failed"))]

\* the loop of sync_readings over the listed blobs
RECURSIVE SyncLoop(_, _, _)
SyncLoop(db, blobs, io) ==
    IF blobs = <<>> THEN db
    ELSE SyncLoop(SyncBlob(db, Head(blobs), io[Head(blobs).path]), Tail(blobs), io)

\* what the download and the ledger write of a blob do; both are tried only
\* for a blob that is not in the ledger
IoOk == [download_ok |-> TRUE, mark_ok |-> TRUE]

BlobIo(log, path) ==
    IF is_blob_synced(log, path)
    THEN {IoOk}
    ELSE {IoOk, [download_ok |-> FALSE, mark_ok |-> TRUE],
          [download_ok |-> TRUE, mark_ok |-> FALSE]}

\* sync_readings: import every listed object that is not in the ledger
SyncReadings ==
    /\ \E storage_ok \in BOOLEAN :
         IF ~storage_ok
         THEN /\ sync' = [NoSync EXCEPT !.run = "no_storage"]
              /\ UNCHANGED <<locations, readings, sync_log>>
         ELSE LET json_blobs == ListJson(archive)
                  names == {o.path : o \in {q \in archive : q.path.json}}
                  fresh == {n \in names : ~is_blob_synced(sync_log, n)}
              IN  \E faults \in [fresh -> BlobIo(<<>>, NoId)] :
                  \E db \in {SyncLoop(
                                   [locations |-> locations, readings |-> readings,
                                    sync_log |-> sync_log, new_count |-> 0,
                                    skip_count |-> 0, error_count |-> 0,
                                    outcomes |-> <<>>],
                                   json_blobs,
                                   [n \in names |->
                                      IF n \in fresh THEN faults[n] ELSE IoOk])} :
                        /\ locations' = db.locations
                        /\ readings' = db.readings
                        /\ sync_log' = db.sync_log
                        /\ sync' = [run |-> "done", listed |-> Len(json_blobs),
                                    new_count |-> db.new_count,
                                    skip_count |-> db.skip_count,
                                    error_count |-> db.error_count,
                                    outcomes |-> db.outcomes]
    /\ UNCHANGED <<variant, stored, msgs, clock, archive, last, probe>>

\* show_status counting every listed object as pending
show_status_all_pending(objects, table, log, storage_ok) ==
    IF storage_ok
    THEN [run |-> "status", total |-> get_readings_count(table),
          listed |-> Len(ListJson(objects)), pending |-> Len(ListJson(objects))]
    ELSE [run |-> "status_no_storage", total |-> get_readings_count(table),
          listed |-> NoId, pending |-> NoId]

\* show_status: what it prints: the number of readings rows and, when the
\* bucket can be listed, the number of .json objects and of those whose path
\* is not in the ledger
show_status(objects, table, log, storage_ok) ==
    IF storage_ok
    THEN LET json_blobs == ListJson(objects)
             unsynced == {i \in DOMAIN json_blobs :
                             ~is_blob_synced(log, json_blobs[i].path)}
         IN  [run |-> "status", total |-> get_readings_count(table),
              listed |-> Len(json_blobs), pending |-> Cardinality(unsynced)]
    ELSE [run |-> "status_no_storage", total |-> get_readings_count(table),
          listed |-> NoId, pending |-> NoId]

\* the sync utility run with --status
ShowStatus ==
    /\ \E storage_ok \in BOOLEAN :
         sync' = show_status(archive, readings, sync_log, storage_ok)
    /\ UNCHANGED <<variant, stored, msgs, clock, archive, last,
                   locations, readings, sync_log, probe>>

\* contents an archived object is sampled at
GoodReading(place_id, timestamp) ==
    [parsable |-> TRUE, timestamp |-> timestamp, place_id |-> place_id,
     popularity |-> NoPop, day_of_week |-> 0, hour |-> 9, is_open |-> TRUE]

SyncContents ==
    { GoodReading(PLACE_ID, 0), GoodReading(PLACE_ID, 1), GoodReading("other", 0),
      GoodReading("", 0), GoodReading(PLACE_ID, NoTs),
      [GoodReading("", NoTs) EXCEPT !.parsable = FALSE] }

SyncPaths ==
    {[minute |-> m, json |-> TRUE] : m \in 0 .. MaxPathMinute}
        \cup {[minute |-> 0, json |-> FALSE]}

\* an object appears in the bucket under a path of readings/ that is free:
\* a reading the collector archived, or anything else that is put there
ArchiveObject ==
    /\ \E path \in SyncPaths, content \in SyncContents :
         /\ ~path.json => content = GoodReading(PLACE_ID, 0)
         /\ \A o \in archive : o.path # path
         /\ archive' = archive \cup {[path |-> path, content |-> content]}
    /\ UNCHANGED <<variant, stored, msgs, clock, last, dbVars, probe>>

\* no helper is probed
NoProbe == [evaluated |-> FALSE]

Init ==
    /\ variant \in {"serverless", "local"}
    /\ stored = NoId
    /\ msgs = <<>>
    /\ clock = 0
    /\ archive = {}
    /\ last = NoCycle
    /\ locations = <<>>
    /\ readings = <<>>
    /\ sync_log = <<>>
    /\ sync = NoSync
    /\ probe = NoProbe

Next ==
    \/ MonitorCrowds
    \/ RunCheck
    \/ DeleteMessage
    \/ Tick

Spec == Init /\ [][Next]_vars

\* the local scheduler variant alone
InitLocal ==
    /\ Init
    /\ variant = "local"

NextLocal ==
    \/ RunCheck
    \/ DeleteMessage
    \/ Tick

SpecLocal == InitLocal /\ [][NextLocal]_vars

\* the sync utility run against a bucket that fills up
InitSync ==
    /\ Init
    /\ variant = "serverless"

NextSync ==
    \/ ArchiveObject
    \/ SyncReadings

SpecSync == InitSync /\ [][NextSync]_vars

\* the sync utility in both modes: import, or --status
NextStatus ==
    \/ ArchiveObject
    \/ SyncReadings
    \/ ShowStatus

SpecStatus == InitSync /\ [][NextStatus]_vars

\* every variable but probe as Init leaves it
Idle ==
    /\ variant = "serverless"
    /\ stored = NoId
    /\ msgs = <<>>
    /\ clock = 0
    /\ archive = {}
    /\ last = NoCycle
    /\ locations = <<>>
    /\ readings = <<>>
    /\ sync_log = <<>>
    /\ sync = NoSync

\* what datetime.now() gives: weekday() and hour
Weekdays == 0 .. 6
Hours == 0 .. 23

\* is_library_open of both variants called at the weekday and hour of probe
IsLibraryOpen ==
    /\ ~probe.evaluated
    /\ probe' = [probe EXCEPT
                   !.evaluated = TRUE,
                   !.serverless = is_library_open(probe.weekday, probe.hour),
                   !.local = is_library_open_local(probe.weekday, probe.hour)]
    /\ UNCHANGED <<variant, stored, msgs, clock, archive, last, dbVars>>

\* the schedule evaluator at any weekday and hour
InitSchedule ==
    /\ Idle
    /\ probe \in [weekday : Weekdays, hour : Hours, evaluated : {FALSE},
                   serverless : {FALSE}, local : {FALSE}]

NextSchedule == IsLibraryOpen

SpecSchedule == InitSchedule /\ [][NextSchedule]_vars

\* what get_crowd_data gives: None (NoPop) or an integer
Popularities == (0 - 5) .. 105

\* classify_load of both variants called at the popularity of probe
ClassifyLoad ==
    /\ ~probe.evaluated
    /\ probe' = [probe EXCEPT
                   !.evaluated = TRUE,
                   !.serverless = classify_load(probe.popularity),
                   !.local = classify_load_local(probe.popularity)]
    /\ UNCHANGED <<variant, stored, msgs, clock, archive, last, dbVars>>

\* the load classifier at any popularity
InitClassifier ==
    /\ Idle
    /\ probe \in [popularity : Popularities, evaluated : {FALSE},
                   serverless : {<<"none", "none">>}, local : {<<"none", "none">>}]

NextClassifier == ClassifyLoad

SpecClassifier == InitClassifier /\ [][NextClassifier]_vars

-----------------------------------------------------------------------------
(* Properties of the publisher, checked under Spec *)

CreateCalls(calls) == Cardinality({i \in DOMAIN calls : calls[i].op = "create"})
EditCalls(calls) == Cardinality({i \in DOMAIN calls : calls[i].op = "edit"})

EditFailures == {"gone", "failed"}
CaughtSendFailures == {"not_ok", "failed"}

\* C1: in every publish cycle of either variant, open or closed, an edit of
\* the stored message that fails for another reason than 'not modified' is
\* followed by exactly one create in that cycle, and a create that succeeds
\* leaves the new id stored.
C1_SelfHealing ==
    last.edit \in EditFailures =>
        /\ CreateCalls(last.calls) = 1
        /\ last.send = "ok" => stored = last.new_id

\* C2: a cycle that finds the stored message and whose edit is answered ok or
\* 'message is not modified' makes that one edit call and no create call,
\* does not raise, leaves the stored id as it was and adds no message to the
\* channel; so publishing the same text again is an edit that changes nothing.
C2_EditIsIdempotent ==
    last.edit \in {"ok", "not_modified"} =>
        /\ Len(last.calls) = 1
        /\ last.calls[1].op = "edit"
        /\ last.calls[1].id = last.stored0
        /\ CreateCalls(last.calls) = 0
        /\ ~last.raised
        /\ stored = last.stored0
        /\ Len(msgs) = last.len0

\* C2 witness: the text of the live stored message was published again, the
\* edit was answered 'message is not modified', one message is visible.
C2_Witness ==
    /\ last.edit = "not_modified"
    /\ last.calls = <<EditCall(stored, msgs[stored].text)>>
    /\ stored = last.stored0
    /\ Live(msgs) = {stored}

\* C3: the messages the system created and nobody deleted are never more
\* than one.
C3_AtMostOneLive == Cardinality(Live(msgs)) <= 1

\* C4 as stated: a cycle that starts with no stored id makes no edit call and
\* exactly one create call; a create that succeeds leaves the new id stored;
\* a create that fails with a transport error, an HTTP error or a body that
\* is not ok leaves no id stored and the cycle does not raise.
C4_FromNoMessage ==
    (last.branch \in {"open", "closed"} /\ last.stored0 = NoId) =>
        /\ EditCalls(last.calls) = 0
        /\ CreateCalls(last.calls) = 1
        /\ last.send = "ok" => (last.new_id = last.len0 + 1 /\ stored = last.new_id)
        /\ last.send \in CaughtSendFailures => (stored = NoId /\ ~last.raised)

\* C4 amended: as C4, but a create that succeeds leaves the new id stored
\* unless the write of the state blob fails (serverless variant), and then
\* no id is stored.
C4_FromNoMessageAmended ==
    (last.branch \in {"open", "closed"} /\ last.stored0 = NoId) =>
        /\ EditCalls(last.calls) = 0
        /\ CreateCalls(last.calls) = 1
        /\ last.send = "ok" =>
              /\ last.new_id = last.len0 + 1
              /\ stored = IF last.write_failed THEN NoId ELSE last.new_id
        /\ last.write_failed => (last.handler = "monitor_crowds" /\ last.send = "ok")
        /\ last.send \in CaughtSendFailures => (stored = NoId /\ ~last.raised)

\* C4 witness: a cycle that started with no stored id created message new_id
\* and stored it.
C4_Witness ==
    /\ last.branch \in {"open", "closed"}
    /\ last.stored0 = NoId
    /\ last.send = "ok"
    /\ stored = last.new_id
    /\ stored \in Live(msgs)
    /\ last.calls = <<CreateCall(msgs[stored].text)>>

\* C7: a cycle of monitor_crowds that has its secrets returns 200 whatever
\* the fetch, the edit, the create and the archive write do; 500 is returned
\* only when the secrets cannot be read.
C7_OnlySecretsFail ==
    last.handler = "monitor_crowds" =>
        /\ last.branch # "abort" => (last.status = 200 /\ ~last.raised)
        /\ last.status = 500 => last.branch = "abort"

\* a step that ends a cycle on the secrets: 500, no fetch, no archive write,
\* no edit, no create, nothing stored or published or archived
C8_AbortStep ==
    (last' # last /\ last'.branch = "abort") =>
        /\ last'.handler = "monitor_crowds"
        /\ last'.status = 500
        /\ last'.calls = <<>>
        /\ last'.fetch = "none"
        /\ last'.upload = "none"
        /\ UNCHANGED <<stored, msgs, archive, clock>>

\* C8: a cycle of monitor_crowds whose secrets cannot be read returns 500 and
\* does nothing else: no fetch, no archive write, no edit, no create, and the
\* stored id, the channel, the archive are as before.
C8_AbortDoesNothing == [][C8_AbortStep]_vars

\* C8 witness: a cycle was aborted while a message id was stored.
C8_Witness ==
    /\ last.branch = "abort"
    /\ last.status = 500
    /\ stored # NoId
    /\ stored = last.stored0

\* C9: a create that fails leaves the stored id as it was; an edit that fails
\* is followed by exactly one create in the cycle, and when that create fails
\* too the old id is still stored.
C9_FailureKeepsState ==
    /\ (last.send # "none" /\ last.send # "ok") => stored = last.stored0
    /\ last.edit \in EditFailures =>
          /\ CreateCalls(last.calls) = 1
          /\ last.send # "ok" => stored = last.stored0

\* C10: when the popularity provider raises, the open cycle goes on with an
\* absent popularity: the load is 'unknown', the serverless variant uploads a
\* reading without popularity, and the publish step runs with the 'could not
\* obtain the load' text.
C10_FetchFailureDegrades ==
    (last.branch = "open" /\ last.fetch \in {"raise", "missing"}) =>
        /\ last.popularity = NoPop
        /\ last.level = "unknown"
        /\ last.calls # <<>>
        /\ \A i \in DOMAIN last.calls :
              /\ last.calls[i].text.kind = "unavailable"
              /\ last.calls[i].text.emoji = "white"
        /\ last.handler = "monitor_crowds" => last.upload # "none"
        /\ last.upload = "ok" =>
              \E o \in archive : /\ o.content.popularity = NoPop
                                 /\ o.content.place_id = PLACE_ID
                                 /\ o.content.is_open

\* C10 witness: the provider raised, the reading without popularity is in
\* the archive and the 'could not obtain the load' text is on the channel.
C10_Witness ==
    /\ last.handler = "monitor_crowds"
    /\ last.branch = "open"
    /\ last.fetch = "raise"
    /\ last.upload = "ok"
    /\ \E o \in archive : o.content.popularity = NoPop
    /\ \E i \in Live(msgs) : msgs[i].text.kind = "unavailable"

-----------------------------------------------------------------------------
(* Properties of the sync utility, checked under SpecSync *)

InLedger(log, path) == \E j \in DOMAIN log : log[j] = path
RowsFrom(table, path) == {i \in DOMAIN table : table[i].synced_from = path}
LedgerEntries(log, path) == {j \in DOMAIN log : log[j] = path}
RowsFor(place_id, timestamp) ==
    {i \in DOMAIN readings :
        /\ readings[i].timestamp = timestamp
        /\ locations[readings[i].location_id].place_id = place_id}
Outcomes(results) == {i \in DOMAIN sync.outcomes : sync.outcomes[i].result \in results}

\* every archived object has at most one readings row and at most one ledger
\* entry; an object whose ledger write went through has exactly one entry
C5_AtMostOnce ==
    /\ \A o \in archive :
          /\ Cardinality(RowsFrom(readings, o.path)) <= 1
          /\ Cardinality(LedgerEntries(sync_log, o.path)) <= 1
    /\ \A i \in DOMAIN sync.outcomes :
          sync.outcomes[i].mark = "ok" =>
              Cardinality(LedgerEntries(sync_log, sync.outcomes[i].path)) = 1

\* a run of sync_readings finds every object of the ledger there before it
\* downloads it and counts it as skipped, leaving its row and its entry; when
\* every listed object is in the ledger the run changes no table and reports
\* all of them skipped, none new, none in error
C5_RerunStep ==
    (sync'.run = "done" /\ <<locations, readings, sync_log, sync>>' #
                              <<locations, readings, sync_log, sync>>) =>
        LET done == {i \in DOMAIN sync'.outcomes :
                        InLedger(sync_log, sync'.outcomes[i].path)}
        IN  /\ \A i \in done :
                  /\ sync'.outcomes[i].result = "synced"
                  /\ sync'.outcomes[i].mark = "none"
                  /\ RowsFrom(readings', sync'.outcomes[i].path)
                         = RowsFrom(readings, sync'.outcomes[i].path)
                  /\ InLedger(sync_log', sync'.outcomes[i].path)
            /\ sync'.skip_count >= Cardinality(done)
            /\ sync'.new_count <= sync'.listed - Cardinality(done)
            /\ sync'.error_count <= sync'.listed - Cardinality(done)
            /\ done = DOMAIN sync'.outcomes =>
                  /\ UNCHANGED <<locations, readings, sync_log>>
                  /\ sync'.skip_count = sync'.listed
                  /\ sync'.new_count = 0
                  /\ sync'.error_count = 0

\* C5: however often sync_readings runs, an archived object gets at most one
\* readings row and its path is in sync_log once; a run after the one that
\* imported it finds it in the ledger, counts it as skipped and changes no
\* table for it.
C5_SyncIdempotent == []C5_AtMostOnce /\ [][C5_RerunStep]_vars

\* C5 witness: a run skipped an object that an earlier run imported.
C5_Witness ==
    /\ sync.run = "done"
    /\ \E i \in Outcomes({"synced"}) :
          /\ Cardinality(RowsFrom(readings, sync.outcomes[i].path)) = 1
          /\ Cardinality(LedgerEntries(sync_log, sync.outcomes[i].path)) = 1
    /\ sync.skip_count = sync.listed
    /\ sync.listed > 0

\* two readable objects under different paths with the same place and
\* timestamp
SameReading(o1, o2) ==
    /\ o1.path # o2.path
    /\ o1.path.json /\ o2.path.json
    /\ o1.content.parsable /\ o2.content.parsable
    /\ o1.content.place_id # "" /\ o1.content.place_id = o2.content.place_id
    /\ o1.content.timestamp # NoTs /\ o1.content.timestamp = o2.content.timestamp

\* C6: two archived objects with different paths and the same (place,
\* timestamp) leave one readings row for the pair once both are synced; the
\* insert of the second is counted as skipped, not as an error, and the
\* paths of both are in the ledger when their ledger writes went through.
C6_DedupByContent ==
    /\ \A o1 \in archive, o2 \in archive :
          SameReading(o1, o2) =>
            LET rows == RowsFor(o1.content.place_id, o1.content.timestamp)
            IN  /\ Cardinality(rows) <= 1
                /\ (InLedger(sync_log, o1.path) /\ InLedger(sync_log, o2.path))
                      => Cardinality(rows) = 1
    /\ sync.run = "done" =>
          /\ \A i \in Outcomes({"new", "duplicate"}) :
                sync.outcomes[i].mark = "ok" => InLedger(sync_log, sync.outcomes[i].path)
          /\ sync.new_count = Cardinality(Outcomes({"new"}))
          /\ sync.skip_count = Cardinality(Outcomes({"synced", "duplicate"}))
          /\ sync.error_count =
                Cardinality(Outcomes({"download_failed", "unparsable", "no_place_id"}))
                  + Cardinality({i \in DOMAIN sync.outcomes :
                                    sync.outcomes[i].mark = "failed"})

\* C6 witness: one run imported two objects with the same place and
\* timestamp: one row, the second a skipped duplicate, no error, both paths
\* in the ledger.
C6_Witness ==
    /\ sync.run = "done"
    /\ sync.new_count = 1
    /\ sync.skip_count = 1
    /\ sync.error_count = 0
    /\ Len(readings) = 1
    /\ \E o1 \in archive, o2 \in archive :
          /\ SameReading(o1, o2)
          /\ InLedger(sync_log, o1.path) /\ InLedger(sync_log, o2.path)
          /\ \E i \in Outcomes({"duplicate"}) : sync.outcomes[i].path = o2.path

-----------------------------------------------------------------------------
(* Properties of the archive, checked under Spec *)

\* two archived objects never hold the same (place, timestamp)
C11_UniqueReadings ==
    \A o1 \in archive, o2 \in archive :
        (/\ o1.content.place_id = o2.content.place_id
         /\ o1.content.timestamp = o2.content.timestamp) => o1 = o2

\* a cycle that changes the archive keeps every object that was there and
\* adds objects whose path names the minute of their own timestamp
C11_WriteStep ==
    archive' # archive =>
        /\ \A o \in archive : o \in archive'
        /\ \A o \in archive' \ archive : o.path.minute = Minute(o.content.timestamp)

\* C11: archive writes never collide: every reading is stored under the path
\* of the minute of its own timestamp, no cycle overwrites an object that is
\* in the archive (two cycles of one minute included), and no two archived
\* readings share (place, timestamp).
C11_ArchiveNeverCollides == []C11_UniqueReadings /\ [][C11_WriteStep]_vars

-----------------------------------------------------------------------------
(* Properties of malformed objects, checked under SpecSync *)

Malformed == {"unparsable", "no_place_id"}

\* an archived .json object that cannot be parsed or names no place
IsMalformed(o) ==
    o.path.json /\ (~o.content.parsable \/ o.content.place_id = "")

\* a malformed object has no readings row, no locations row and no ledger
\* entry; a run gives it one outcome, an error that is counted
C12_NoTrace ==
    /\ \A o \in archive :
          IsMalformed(o) => /\ RowsFrom(readings, o.path) = {}
                            /\ ~InLedger(sync_log, o.path)
    /\ \A i \in DOMAIN locations : locations[i].place_id # ""
    /\ sync.run = "done" =>
          /\ \A i \in Outcomes(Malformed) :
                /\ sync.outcomes[i].mark = "none"
                /\ \E o \in archive : IsMalformed(o) /\ o.path = sync.outcomes[i].path
                /\ \A j \in DOMAIN sync.outcomes :
                      sync.outcomes[j].path = sync.outcomes[i].path => j = i
          /\ sync.error_count >= Cardinality(Outcomes(Malformed))
          /\ sync.new_count + sync.skip_count
                 <= sync.listed - Cardinality(Outcomes(Malformed))

\* a run adds one readings row for every object it counts as new and a
\* locations row only for objects that name a place: a run whose objects are
\* all malformed changes no table
C12_SkipStep ==
    (sync'.run = "done" /\ <<locations, readings, sync_log, sync>>' #
                              <<locations, readings, sync_log, sync>>) =>
        LET malformed == {i \in DOMAIN sync'.outcomes :
                             sync'.outcomes[i].result \in Malformed}
            imported == {i \in DOMAIN sync'.outcomes :
                             sync'.outcomes[i].result \in {"new", "duplicate"}}
        IN  /\ \A o \in archive :
                  (IsMalformed(o) /\ ~InLedger(sync_log, o.path)) =>
                      \E i \in DOMAIN sync'.outcomes :
                          /\ sync'.outcomes[i].path = o.path
                          /\ sync'.outcomes[i].result \in Malformed \cup {"download_failed"}
            /\ Len(readings') - Len(readings) <= Cardinality(imported)
            /\ Len(locations') - Len(locations) <= Cardinality(imported)
            /\ imported = {} => UNCHANGED <<locations, readings, sync_log>>
            /\ sync'.error_count >= Cardinality(malformed)

\* C12: an archived object that cannot be parsed or that names no place is
\* skipped by sync_readings: it gets no readings row, no locations row and no
\* ledger entry, it is counted once as an error, and the run does not try it
\* a second time.
C12_MalformedSkipped == []C12_NoTrace /\ [][C12_SkipStep]_vars

\* C12 witness: a run listed an unparsable object and one without place: two
\* errors, nothing imported, the tables empty.
C12_Witness ==
    /\ sync.run = "done"
    /\ Outcomes({"unparsable"}) # {}
    /\ Outcomes({"no_place_id"}) # {}
    /\ sync.error_count = 2
    /\ sync.new_count = 0
    /\ readings = <<>> /\ locations = <<>> /\ sync_log = <<>>

-----------------------------------------------------------------------------
(* Properties of the schedule evaluator, checked under SpecSchedule *)

\* C13: for every weekday 0..6 and hour 0..23, is_library_open is true
\* exactly when the weekday is in the operating-hours table and
\* open_hour <= hour < close_hour: false on every hour of Saturday (5), which
\* the table does not have, false at the closing hour, true at the opening
\* hour, and the serverless and the local variant give the same answer.
C13_ScheduleEvaluator ==
    probe.evaluated =>
        LET wd == probe.weekday
            hr == probe.hour
            listed == wd \in DOMAIN OPERATING_HOURS
        IN  /\ probe.serverless \in BOOLEAN
            /\ probe.serverless <=>
                  (listed /\ OPERATING_HOURS[wd][1] <= hr /\ hr < OPERATING_HOURS[wd][2])
            /\ wd = 5 => ~probe.serverless
            /\ ~listed => ~probe.serverless
            /\ (listed /\ hr = OPERATING_HOURS[wd][2]) => ~probe.serverless
            /\ (listed /\ hr = OPERATING_HOURS[wd][1]) => probe.serverless
            /\ (wd = 0 /\ hr = 9) => probe.serverless
            /\ (wd = 0 /\ hr \in {8, 20}) => ~probe.serverless
            /\ probe.local = probe.serverless

\* C13 witness: is_library_open was called on Friday at its closing hour and
\* answered closed.
C13_Witness ==
    /\ probe.evaluated
    /\ probe.weekday = 4
    /\ probe.hour = OPERATING_HOURS[4][2]
    /\ ~probe.serverless /\ ~probe.local

-----------------------------------------------------------------------------
(* Properties of the load classifier, checked under SpecClassifier *)

\* C14: classify_load answers for every input: unknown/white for an absent
\* popularity, low/green below 30, medium/yellow from 30 to 59, high/red from
\* 60 on; the four cases exclude each other and the two variants agree.
C14_LoadClassifier ==
    probe.evaluated =>
        LET p == probe.popularity
            r == probe.serverless
        IN  /\ r \in {<<"unknown", "white">>, <<"low", "green">>,
                      <<"medium", "yellow">>, <<"high", "red">>}
            /\ r = <<"unknown", "white">> <=> p = NoPop
            /\ r = <<"low", "green">> <=> (p # NoPop /\ p < 30)
            /\ r = <<"medium", "yellow">> <=> (30 <= p /\ p <= 59)
            /\ r = <<"high", "red">> <=> p >= 60
            /\ probe.local = r

\* C14 witness: classify_load was called with 59 and answered medium.
C14_Witness ==
    /\ probe.evaluated
    /\ probe.popularity = 59
    /\ probe.serverless = <<"medium", "yellow">>
    /\ probe.local = <<"medium", "yellow">>

-----------------------------------------------------------------------------
(* Properties of the status mode, checked under SpecStatus *)

StatusRuns == {"status", "status_no_storage"}

Pending == {o \in archive : o.path.json /\ ~InLedger(sync_log, o.path)}

\* a run of show_status leaves the tables and the bucket as they were and
\* reports the rows of readings, the .json objects of the bucket and, as
\* pending, those of them whose path is not in the ledger
C15_StatusStep ==
    (sync'.run \in StatusRuns /\ sync' # sync) =>
        /\ UNCHANGED <<locations, readings, sync_log, archive>>
        /\ sync'.total = Len(readings)
        /\ sync'.run = "status" =>
              /\ sync'.listed = Cardinality({o \in archive : o.path.json})
              /\ sync'.pending = Cardinality(Pending)

\* C15: show_status, run in any state, leaves the readings rows, the
\* locations rows and the sync ledger exactly as they were, and the number it
\* reports as pending is the number of archived .json objects whose path is
\* not in the ledger.
C15_StatusChangesNothing == [][C15_StatusStep]_vars

\* C15 witness: show_status ran on a bucket of two .json objects of which one
\* is in the ledger, and reported one pending.
C15_Witness ==
    /\ sync.run = "status"
    /\ sync.listed = 2
    /\ sync.pending = 1
    /\ Cardinality(Pending) = 1
    /\ Len(sync_log) = 1
    /\ Len(readings) = 1

-----------------------------------------------------------------------------
(* Properties of the locations table, checked under SpecSync *)

LocationsOf(place_id) == {i \in DOMAIN locations : locations[i].place_id = place_id}

\* the archived objects sync_readings takes a place from
NamesPlace(o) == o.path.json /\ o.content.parsable /\ o.content.place_id # ""

\* one locations row per place; a row only for a place that an archived
\* reading names; every object in the ledger has the row of its place; the
\* readings row of an object points at the row of the object's place
C16_OneRowPerPlace ==
    /\ \A i \in DOMAIN locations, j \in DOMAIN locations :
          locations[i].place_id = locations[j].place_id => i = j
    /\ \A i \in DOMAIN locations :
          \E o \in archive : NamesPlace(o) /\ o.content.place_id = locations[i].place_id
    /\ \A o \in archive :
          InLedger(sync_log, o.path) =>
              Cardinality(LocationsOf(o.content.place_id)) = 1
    /\ \A r \in DOMAIN readings :
          /\ readings[r].location_id \in DOMAIN locations
          /\ \E o \in archive :
                /\ o.path = readings[r].synced_from
                /\ LocationsOf(o.content.place_id) = {readings[r].location_id}

\* a run keeps the rows of locations and their ids, and adds a row exactly
\* for each place that an object it imports names and that had no row
C16_LazyStep ==
    (sync'.run = "done" /\ <<locations, readings, sync_log, sync>>' #
                              <<locations, readings, sync_log, sync>>) =>
        LET imported == {i \in DOMAIN sync'.outcomes :
                            sync'.outcomes[i].result \in {"new", "duplicate"}}
            places == {o.content.place_id :
                          o \in {q \in archive :
                                    \E i \in imported : sync'.outcomes[i].path = q.path}}
            known == {locations[i].place_id : i \in DOMAIN locations}
        IN  /\ Len(locations') >= Len(locations)
            /\ SubSeq(locations', 1, Len(locations)) = locations
            /\ {locations'[i].place_id : i \in DOMAIN locations'} = known \cup places
            /\ Len(locations') = Cardinality(known \cup places)

\* C16: locations are created lazily and never duplicated: after any runs of
\* sync_readings there is exactly one locations row for each place that a
\* processed reading names, added by the run that first sees the place, and
\* every later reading of that place gets the id of that row.
C16_LocationsLazyUnique == []C16_OneRowPerPlace /\ [][C16_LazyStep]_vars

\* C16 witness: two readings of one place, imported from two objects, point
\* at the one locations row of the place.
C16_Witness ==
    /\ Len(locations) = 1
    /\ Len(readings) = 2
    /\ readings[1].location_id = 1 /\ readings[2].location_id = 1
    /\ readings[1].synced_from # readings[2].synced_from
    /\ locations[1].place_id = PLACE_ID

-----------------------------------------------------------------------------
(* Properties of the ledger and of the counters, checked under SpecSync *)

\* C17: every path of the sync ledger is that of an imported reading: the
\* readings table has a row with the place and the timestamp of the archived
\* object of that path, also when the object names a place and no timestamp.
C17_LedgerHasReading ==
    \A o \in archive :
        InLedger(sync_log, o.path) =>
            RowsFor(o.content.place_id, o.content.timestamp) # {}

\* C18: at the end of a run of sync_readings the three counters add up to
\* the number of .json objects listed, every object counted once, also when
\* the ledger write after an insert fails.
C18_CountersPartition ==
    sync.run = "done" =>
        /\ sync.new_count + sync.skip_count + sync.error_count = sync.listed
        /\ Len(sync.outcomes) = sync.listed

-----------------------------------------------------------------------------
(* Properties of the stored id and of the two variants, checked under Spec *)

\* C19: once a create has succeeded, the stored id is the id of the message
\* created last (ids are given in the order of creation), also after a cycle
\* of the serverless variant whose write of the state blob failed.
C19_StoredIsLatestCreate ==
    Len(msgs) > 0 => stored = Len(msgs)
\* what the other variant's publish step does from the stored id, the text
\* and the provider's answers of the last cycle; sr answers a create that the
\* last cycle did not attempt
OtherVariant(sr) ==
    LET text == last.calls[1].text
        fresh == last.len0 + 1
    IN  IF last.handler = "run_check"
        THEN publish(last.read_id, text, last.edit, sr, fresh)
        ELSE IF last.branch = "closed"
        THEN publish_closed_local(last.read_id, text, last.edit, sr, fresh)
        ELSE publish_local(last.read_id, text, last.edit, sr, fresh)

\* C20: run_check and monitor_crowds are the same publisher: from the stored
\* id, the text and the provider's answers of any cycle of one variant, open
\* or closed, whose state store worked, the other variant issues the same
\* edit and create calls and ends with the same stored id.
C20_SamePublisher ==
    (/\ last.branch \in {"open", "closed"}
     /\ ~last.read_failed /\ ~last.write_failed) =>
        \A sr \in (IF last.send = "none" THEN SendResponses ELSE {last.send}) :
            /\ OtherVariant(sr).calls = last.calls
            /\ stored = IF OtherVariant(sr).new_id # NoId
                        THEN OtherVariant(sr).new_id
                        ELSE last.stored0

====
